---------------------------- MODULE Spec2Model ----------------------------
(***************************************************************************)
(* Model of the stock/price synchronisation scripts seller.py (Ozon) and   *)
(* market.py (Yandex Market): the pure helpers (price_conversion, divide), *)
(* the reconciliation of the vendor feed against the marketplace's offer   *)
(* ids (create_stocks, create_prices), the paginated offer listing         *)
(* (get_offer_ids) and the batch submission loops (upload_*, main).        *)
(*                                                                         *)
(* Text is modelled as sequences of one-character strings, so that parsing *)
(* (int(), re.sub, str.split) is computed and not assumed.  Offer codes    *)
(* are only ever compared for equality and are plain strings.              *)
(***************************************************************************)
EXTENDS Integers, Sequences, FiniteSets, TLC

VARIABLES
    prog,            \* the entry point being run
    pc,              \* position inside the entry point
    watch_remnants,  \* the vendor feed: list of rows (code, quantity, price)
    upstream,        \* responses the marketplace will give to successive page fetches
    nfetch,          \* number of get_product_list calls the running get_offer_ids made
    cursor,          \* last_id (seller.py) / page (market.py)
    product_list,    \* entries accumulated by get_offer_ids
    fetch_log,       \* cursor passed to each get_product_list call, in call order
    known,           \* the list get_offer_ids returned (before anybody mutates it)
    offer_ids,       \* the list object passed to create_stocks / create_prices
    stocks,          \* result of create_stocks
    prices,          \* result of create_prices
    pending,         \* batches of the running for-loop not yet submitted
    calls,           \* update_stocks / update_price calls issued, in order
    bsize,           \* batch sizes of the call sites
    not_empty,       \* upload_stocks: the records with a count other than 0
    err,             \* exception that left the entry point ("none" when none)
    lst,             \* divide: the list argument
    n,               \* divide: the size argument
    out,             \* divide: what list(divide(lst, n)) gave
    campaign         \* market.main: the campaign being synchronised ("none" elsewhere)

vars == <<prog, pc, watch_remnants, upstream, nfetch, cursor, product_list,
          fetch_log, known, offer_ids, stocks, prices, pending, calls, bsize,
          not_empty, err, lst, n, out, campaign>>

----------------------------------------------------------------------------
(* Bounds of the model.                                                    *)

MaxFeed == 2
MaxOffers == 3
MaxLen == 4
MaxN == 3
MaxPages == 3
MaxBatch == 2

----------------------------------------------------------------------------
(* Generic list helpers (Python list semantics).                           *)

Min(a, b) == IF a <= b THEN a ELSE b

SeqsUpTo(S, k) == UNION {[1..m -> S] : m \in 0..k}

Contains(s, x) == \E i \in 1..Len(s) : s[i] = x

RECURSIVE Flatten(_)
Flatten(ss) == IF ss = <<>> THEN <<>> ELSE Head(ss) \o Flatten(Tail(ss))

Count(s, x) == Cardinality({i \in 1..Len(s) : s[i] = x})

\* list.remove(x): delete the first occurrence (the callers test membership first)
list_remove_last(s, x) ==
    LET i == CHOOSE j \in 1..Len(s) : s[j] = x /\ \A k \in (j+1)..Len(s) : s[k] # x
    IN  SubSeq(s, 1, i-1) \o SubSeq(s, i+1, Len(s))

list_remove_all(s, x) == SelectSeq(s, LAMBDA y : y # x)

list_remove(s, x) ==
    LET i == CHOOSE j \in 1..Len(s) : s[j] = x /\ \A k \in 1..(j-1) : s[k] # x
    IN  SubSeq(s, 1, i-1) \o SubSeq(s, i+1, Len(s))

----------------------------------------------------------------------------
(* Text.                                                                   *)

\* A text is a sequence of characters. A character is written as itself when
\* it is printable ASCII or one of \t \n \r \f, and as "U+" and its code point
\* in hexadecimal otherwise ("U+00A0" is the no-break space).

\* [0-9] of a str pattern
Digits == {"0", "1", "2", "3", "4", "5", "6", "7", "8", "9"}

\* the characters int() skips before and after the number
Whitespace ==
    {" ", "\t", "\n", "\r", "\f", "U+000B", "U+0085", "U+00A0", "U+1680",
     "U+2000", "U+2001", "U+2002", "U+2003", "U+2004", "U+2005", "U+2006",
     "U+2007", "U+2008", "U+2009", "U+200A", "U+2028", "U+2029", "U+202F",
     "U+205F", "U+3000"}

\* the decimal digits int() reads (Unicode category Nd, as of Unicode 14.0 of
\* CPython 3.11): runs of ten characters standing for 0..9, one run per script
DecimalRuns ==
    { <<"0", "1", "2", "3", "4", "5", "6", "7", "8", "9">>,
      <<"U+0660", "U+0661", "U+0662", "U+0663", "U+0664", "U+0665", "U+0666", "U+0667", "U+0668", "U+0669">>,
      <<"U+06F0", "U+06F1", "U+06F2", "U+06F3", "U+06F4", "U+06F5", "U+06F6", "U+06F7", "U+06F8", "U+06F9">>,
      <<"U+07C0", "U+07C1", "U+07C2", "U+07C3", "U+07C4", "U+07C5", "U+07C6", "U+07C7", "U+07C8", "U+07C9">>,
      <<"U+0966", "U+0967", "U+0968", "U+0969", "U+096A", "U+096B", "U+096C", "U+096D", "U+096E", "U+096F">>,
      <<"U+09E6", "U+09E7", "U+09E8", "U+09E9", "U+09EA", "U+09EB", "U+09EC", "U+09ED", "U+09EE", "U+09EF">>,
      <<"U+0A66", "U+0A67", "U+0A68", "U+0A69", "U+0A6A", "U+0A6B", "U+0A6C", "U+0A6D", "U+0A6E", "U+0A6F">>,
      <<"U+0AE6", "U+0AE7", "U+0AE8", "U+0AE9", "U+0AEA", "U+0AEB", "U+0AEC", "U+0AED", "U+0AEE", "U+0AEF">>,
      <<"U+0B66", "U+0B67", "U+0B68", "U+0B69", "U+0B6A", "U+0B6B", "U+0B6C", "U+0B6D", "U+0B6E", "U+0B6F">>,
      <<"U+0BE6", "U+0BE7", "U+0BE8", "U+0BE9", "U+0BEA", "U+0BEB", "U+0BEC", "U+0BED", "U+0BEE", "U+0BEF">>,
      <<"U+0C66", "U+0C67", "U+0C68", "U+0C69", "U+0C6A", "U+0C6B", "U+0C6C", "U+0C6D", "U+0C6E", "U+0C6F">>,
      <<"U+0CE6", "U+0CE7", "U+0CE8", "U+0CE9", "U+0CEA", "U+0CEB", "U+0CEC", "U+0CED", "U+0CEE", "U+0CEF">>,
      <<"U+0D66", "U+0D67", "U+0D68", "U+0D69", "U+0D6A", "U+0D6B", "U+0D6C", "U+0D6D", "U+0D6E", "U+0D6F">>,
      <<"U+0DE6", "U+0DE7", "U+0DE8", "U+0DE9", "U+0DEA", "U+0DEB", "U+0DEC", "U+0DED", "U+0DEE", "U+0DEF">>,
      <<"U+0E50", "U+0E51", "U+0E52", "U+0E53", "U+0E54", "U+0E55", "U+0E56", "U+0E57", "U+0E58", "U+0E59">>,
      <<"U+0ED0", "U+0ED1", "U+0ED2", "U+0ED3", "U+0ED4", "U+0ED5", "U+0ED6", "U+0ED7", "U+0ED8", "U+0ED9">>,
      <<"U+0F20", "U+0F21", "U+0F22", "U+0F23", "U+0F24", "U+0F25", "U+0F26", "U+0F27", "U+0F28", "U+0F29">>,
      <<"U+1040", "U+1041", "U+1042", "U+1043", "U+1044", "U+1045", "U+1046", "U+1047", "U+1048", "U+1049">>,
      <<"U+1090", "U+1091", "U+1092", "U+1093", "U+1094", "U+1095", "U+1096", "U+1097", "U+1098", "U+1099">>,
      <<"U+17E0", "U+17E1", "U+17E2", "U+17E3", "U+17E4", "U+17E5", "U+17E6", "U+17E7", "U+17E8", "U+17E9">>,
      <<"U+1810", "U+1811", "U+1812", "U+1813", "U+1814", "U+1815", "U+1816", "U+1817", "U+1818", "U+1819">>,
      <<"U+1946", "U+1947", "U+1948", "U+1949", "U+194A", "U+194B", "U+194C", "U+194D", "U+194E", "U+194F">>,
      <<"U+19D0", "U+19D1", "U+19D2", "U+19D3", "U+19D4", "U+19D5", "U+19D6", "U+19D7", "U+19D8", "U+19D9">>,
      <<"U+1A80", "U+1A81", "U+1A82", "U+1A83", "U+1A84", "U+1A85", "U+1A86", "U+1A87", "U+1A88", "U+1A89">>,
      <<"U+1A90", "U+1A91", "U+1A92", "U+1A93", "U+1A94", "U+1A95", "U+1A96", "U+1A97", "U+1A98", "U+1A99">>,
      <<"U+1B50", "U+1B51", "U+1B52", "U+1B53", "U+1B54", "U+1B55", "U+1B56", "U+1B57", "U+1B58", "U+1B59">>,
      <<"U+1BB0", "U+1BB1", "U+1BB2", "U+1BB3", "U+1BB4", "U+1BB5", "U+1BB6", "U+1BB7", "U+1BB8", "U+1BB9">>,
      <<"U+1C40", "U+1C41", "U+1C42", "U+1C43", "U+1C44", "U+1C45", "U+1C46", "U+1C47", "U+1C48", "U+1C49">>,
      <<"U+1C50", "U+1C51", "U+1C52", "U+1C53", "U+1C54", "U+1C55", "U+1C56", "U+1C57", "U+1C58", "U+1C59">>,
      <<"U+A620", "U+A621", "U+A622", "U+A623", "U+A624", "U+A625", "U+A626", "U+A627", "U+A628", "U+A629">>,
      <<"U+A8D0", "U+A8D1", "U+A8D2", "U+A8D3", "U+A8D4", "U+A8D5", "U+A8D6", "U+A8D7", "U+A8D8", "U+A8D9">>,
      <<"U+A900", "U+A901", "U+A902", "U+A903", "U+A904", "U+A905", "U+A906", "U+A907", "U+A908", "U+A909">>,
      <<"U+A9D0", "U+A9D1", "U+A9D2", "U+A9D3", "U+A9D4", "U+A9D5", "U+A9D6", "U+A9D7", "U+A9D8", "U+A9D9">>,
      <<"U+A9F0", "U+A9F1", "U+A9F2", "U+A9F3", "U+A9F4", "U+A9F5", "U+A9F6", "U+A9F7", "U+A9F8", "U+A9F9">>,
      <<"U+AA50", "U+AA51", "U+AA52", "U+AA53", "U+AA54", "U+AA55", "U+AA56", "U+AA57", "U+AA58", "U+AA59">>,
      <<"U+ABF0", "U+ABF1", "U+ABF2", "U+ABF3", "U+ABF4", "U+ABF5", "U+ABF6", "U+ABF7", "U+ABF8", "U+ABF9">>,
      <<"U+FF10", "U+FF11", "U+FF12", "U+FF13", "U+FF14", "U+FF15", "U+FF16", "U+FF17", "U+FF18", "U+FF19">>,
      <<"U+104A0", "U+104A1", "U+104A2", "U+104A3", "U+104A4", "U+104A5", "U+104A6", "U+104A7", "U+104A8", "U+104A9">>,
      <<"U+10D30", "U+10D31", "U+10D32", "U+10D33", "U+10D34", "U+10D35", "U+10D36", "U+10D37", "U+10D38", "U+10D39">>,
      <<"U+11066", "U+11067", "U+11068", "U+11069", "U+1106A", "U+1106B", "U+1106C", "U+1106D", "U+1106E", "U+1106F">>,
      <<"U+110F0", "U+110F1", "U+110F2", "U+110F3", "U+110F4", "U+110F5", "U+110F6", "U+110F7", "U+110F8", "U+110F9">>,
      <<"U+11136", "U+11137", "U+11138", "U+11139", "U+1113A", "U+1113B", "U+1113C", "U+1113D", "U+1113E", "U+1113F">>,
      <<"U+111D0", "U+111D1", "U+111D2", "U+111D3", "U+111D4", "U+111D5", "U+111D6", "U+111D7", "U+111D8", "U+111D9">>,
      <<"U+112F0", "U+112F1", "U+112F2", "U+112F3", "U+112F4", "U+112F5", "U+112F6", "U+112F7", "U+112F8", "U+112F9">>,
      <<"U+11450", "U+11451", "U+11452", "U+11453", "U+11454", "U+11455", "U+11456", "U+11457", "U+11458", "U+11459">>,
      <<"U+114D0", "U+114D1", "U+114D2", "U+114D3", "U+114D4", "U+114D5", "U+114D6", "U+114D7", "U+114D8", "U+114D9">>,
      <<"U+11650", "U+11651", "U+11652", "U+11653", "U+11654", "U+11655", "U+11656", "U+11657", "U+11658", "U+11659">>,
      <<"U+116C0", "U+116C1", "U+116C2", "U+116C3", "U+116C4", "U+116C5", "U+116C6", "U+116C7", "U+116C8", "U+116C9">>,
      <<"U+11730", "U+11731", "U+11732", "U+11733", "U+11734", "U+11735", "U+11736", "U+11737", "U+11738", "U+11739">>,
      <<"U+118E0", "U+118E1", "U+118E2", "U+118E3", "U+118E4", "U+118E5", "U+118E6", "U+118E7", "U+118E8", "U+118E9">>,
      <<"U+11950", "U+11951", "U+11952", "U+11953", "U+11954", "U+11955", "U+11956", "U+11957", "U+11958", "U+11959">>,
      <<"U+11C50", "U+11C51", "U+11C52", "U+11C53", "U+11C54", "U+11C55", "U+11C56", "U+11C57", "U+11C58", "U+11C59">>,
      <<"U+11D50", "U+11D51", "U+11D52", "U+11D53", "U+11D54", "U+11D55", "U+11D56", "U+11D57", "U+11D58", "U+11D59">>,
      <<"U+11DA0", "U+11DA1", "U+11DA2", "U+11DA3", "U+11DA4", "U+11DA5", "U+11DA6", "U+11DA7", "U+11DA8", "U+11DA9">>,
      <<"U+16A60", "U+16A61", "U+16A62", "U+16A63", "U+16A64", "U+16A65", "U+16A66", "U+16A67", "U+16A68", "U+16A69">>,
      <<"U+16AC0", "U+16AC1", "U+16AC2", "U+16AC3", "U+16AC4", "U+16AC5", "U+16AC6", "U+16AC7", "U+16AC8", "U+16AC9">>,
      <<"U+16B50", "U+16B51", "U+16B52", "U+16B53", "U+16B54", "U+16B55", "U+16B56", "U+16B57", "U+16B58", "U+16B59">>,
      <<"U+1D7CE", "U+1D7CF", "U+1D7D0", "U+1D7D1", "U+1D7D2", "U+1D7D3", "U+1D7D4", "U+1D7D5", "U+1D7D6", "U+1D7D7">>,
      <<"U+1D7D8", "U+1D7D9", "U+1D7DA", "U+1D7DB", "U+1D7DC", "U+1D7DD", "U+1D7DE", "U+1D7DF", "U+1D7E0", "U+1D7E1">>,
      <<"U+1D7E2", "U+1D7E3", "U+1D7E4", "U+1D7E5", "U+1D7E6", "U+1D7E7", "U+1D7E8", "U+1D7E9", "U+1D7EA", "U+1D7EB">>,
      <<"U+1D7EC", "U+1D7ED", "U+1D7EE", "U+1D7EF", "U+1D7F0", "U+1D7F1", "U+1D7F2", "U+1D7F3", "U+1D7F4", "U+1D7F5">>,
      <<"U+1D7F6", "U+1D7F7", "U+1D7F8", "U+1D7F9", "U+1D7FA", "U+1D7FB", "U+1D7FC", "U+1D7FD", "U+1D7FE", "U+1D7FF">>,
      <<"U+1E140", "U+1E141", "U+1E142", "U+1E143", "U+1E144", "U+1E145", "U+1E146", "U+1E147", "U+1E148", "U+1E149">>,
      <<"U+1E2F0", "U+1E2F1", "U+1E2F2", "U+1E2F3", "U+1E2F4", "U+1E2F5", "U+1E2F6", "U+1E2F7", "U+1E2F8", "U+1E2F9">>,
      <<"U+1E950", "U+1E951", "U+1E952", "U+1E953", "U+1E954", "U+1E955", "U+1E956", "U+1E957", "U+1E958", "U+1E959">>,
      <<"U+1FBF0", "U+1FBF1", "U+1FBF2", "U+1FBF3", "U+1FBF4", "U+1FBF5", "U+1FBF6", "U+1FBF7", "U+1FBF8", "U+1FBF9">> }

DecimalDigits == UNION {{r[i] : i \in 1..10} : r \in DecimalRuns}

DigitVal(c) ==
    CASE c = "0" -> 0 [] c = "1" -> 1 [] c = "2" -> 2 [] c = "3" -> 3
      [] c = "4" -> 4 [] c = "5" -> 5 [] c = "6" -> 6 [] c = "7" -> 7
      [] c = "8" -> 8 [] c = "9" -> 9
      [] OTHER -> (CHOOSE i \in 1..10 : \E r \in DecimalRuns : r[i] = c) - 1

RECURSIVE LStrip(_)
LStrip(s) == IF s # <<>> /\ Head(s) \in Whitespace THEN LStrip(Tail(s)) ELSE s

RECURSIVE RStrip(_)
RStrip(s) ==
    IF s # <<>> /\ s[Len(s)] \in Whitespace THEN RStrip(SubSeq(s, 1, Len(s)-1)) ELSE s

RECURSIVE DecimalValue(_)
DecimalValue(s) ==
    IF s = <<>> THEN 0
    ELSE 10 * DecimalValue(SubSeq(s, 1, Len(s)-1)) + DigitVal(s[Len(s)])

\* int(text): surrounding whitespace is ignored, one sign is allowed, the digits
\* are decimal digits of any script and may be grouped by single underscores;
\* anything else raises ValueError.
py_int_lenient(s) ==
    LET d == SelectSeq(s, LAMBDA c : c \in Digits)
    IN  [err |-> "none", val |-> DecimalValue(d)]

py_int(s) ==
    LET t    == RStrip(LStrip(s))
        sgn  == IF t # <<>> /\ Head(t) \in {"+", "-"} THEN Head(t) ELSE ""
        body == IF sgn = "" THEN t ELSE Tail(t)
        wellformed ==
            /\ body # <<>>
            /\ \A i \in 1..Len(body) : body[i] \in DecimalDigits \cup {"_"}
            /\ body[1] \in DecimalDigits
            /\ body[Len(body)] \in DecimalDigits
            /\ \A i \in 1..(Len(body)-1) : ~(body[i] = "_" /\ body[i+1] = "_")
        mag  == DecimalValue(SelectSeq(body, LAMBDA c : c \in DecimalDigits))
    IN  IF wellformed
        THEN [err |-> "none", val |-> IF sgn = "-" THEN 0 - mag ELSE mag]
        ELSE [err |-> "ValueError", val |-> 0]

\* price.split(".")[0]: the text before the first "."
BeforeDot(s) ==
    IF Contains(s, ".")
    THEN SubSeq(s, 1, (CHOOSE i \in 1..Len(s) :
                          s[i] = "." /\ \A k \in 1..(i-1) : s[k] # ".") - 1)
    ELSE s

\* re.sub("[^0-9]", "", price.split(".")[0])
price_conversion(price) == SelectSeq(BeforeDot(price), LAMBDA c : c \in Digits)

----------------------------------------------------------------------------
(* divide(lst, n): list(divide(lst, n)) as the callers consume it.          *)

\* len(range(0, stop, step)) for step # 0
RangeLen(stop, step) ==
    IF step > 0 THEN (stop + step - 1) \div step ELSE 0

divide_drop_remainder(l, k) ==
    IF k = 0 THEN [err |-> "ValueError", slices |-> <<>>]
    ELSE [err |-> "none",
          slices |-> [j \in 1..(IF k > 0 THEN Len(l) \div k ELSE 0) |->
                         SubSeq(l, (j-1)*k + 1, Min(j*k, Len(l)))]]

divide_checked(l, k) ==
    IF k <= 0 THEN [err |-> "ValueError", slices |-> <<>>]
    ELSE [err |-> "none",
          slices |-> [j \in 1..RangeLen(Len(l), k) |->
                         SubSeq(l, (j-1)*k + 1, Min(j*k, Len(l)))]]

\* range(0, len(lst), n) raises ValueError for n = 0 and is empty for n < 0
divide(l, k) ==
    IF k = 0 THEN [err |-> "ValueError", slices |-> <<>>]
    ELSE [err |-> "none",
          slices |-> [j \in 1..RangeLen(Len(l), k) |->
                         SubSeq(l, (j-1)*k + 1, Min(j*k, Len(l)))]]

----------------------------------------------------------------------------
(* Reconciliation.  A feed row is [code, qty, price]: the columns "Код",    *)
(* "Количество" and "Цена" of the vendor's sheet.                           *)

\* A cell of the sheet, as read_excel hands it over and dict.get returns it: a
\* text, an integer, a float (finite ones are kept in tenths: 25 is 2.5; the
\* others by name, "nan" or "inf"), a bool, or None when the column is absent.
StrCell(t)   == [type |-> "str",      text |-> t,    val |-> 0]
IntCell(k)   == [type |-> "int",      text |-> <<>>, val |-> k]
FloatCell(k) == [type |-> "float",    text |-> <<>>, val |-> k]
NonFinite(t) == [type |-> "float",    text |-> t,    val |-> 0]
BoolCell(b)  == [type |-> "bool",     text |-> <<>>, val |-> IF b THEN 1 ELSE 0]
NoneCell     == [type |-> "NoneType", text |-> <<>>, val |-> 0]

Abs(k) == IF k < 0 THEN 0 - k ELSE k

DigitChar(d) == <<"0", "1", "2", "3", "4", "5", "6", "7", "8", "9">>[d + 1]

\* str(k) for k >= 0
RECURSIVE NatText(_)
NatText(k) == IF k < 10 THEN <<DigitChar(k)>> ELSE NatText(k \div 10) \o <<DigitChar(k % 10)>>

\* str(value)
py_str(v) ==
    CASE v.type = "str" -> v.text
      [] v.type = "int" -> (IF v.val < 0 THEN <<"-">> ELSE <<>>) \o NatText(Abs(v.val))
      [] v.type = "float" ->
             IF v.text # <<>> THEN v.text
             ELSE (IF v.val < 0 THEN <<"-">> ELSE <<>>)
                      \o NatText(Abs(v.val) \div 10) \o <<".">>
                      \o <<DigitChar(Abs(v.val) % 10)>>
      [] v.type = "bool" -> (IF v.val = 1 THEN <<"T", "r", "u", "e">>
                             ELSE <<"F", "a", "l", "s", "e">>)
      [] v.type = "NoneType" -> <<"N", "o", "n", "e">>

\* int(value): a text is parsed, an integer or a bool is its own value, a float
\* is cut toward zero (nan raises ValueError, an infinity OverflowError), None
\* raises TypeError
int_value(v) ==
    CASE v.type = "str" -> py_int(v.text)
      [] v.type \in {"int", "bool"} -> [err |-> "none", val |-> v.val]
      [] v.type = "float" ->
             IF v.text = <<"n", "a", "n">> THEN [err |-> "ValueError", val |-> 0]
             ELSE IF v.text # <<>> THEN [err |-> "OverflowError", val |-> 0]
             ELSE [err |-> "none",
                   val |-> IF v.val < 0 THEN 0 - (Abs(v.val) \div 10) ELSE v.val \div 10]
      [] v.type = "NoneType" -> [err |-> "TypeError", val |-> 0]

\* the quantity branch of seller.create_stocks: count = str(value) is compared,
\* the value itself is handed to int()
seller_stock_count_literal(value) ==
    IF py_str(value) = <<">", "1", "0">> THEN [err |-> "none", val |-> 100]
    ELSE int_value(value)

seller_stock_count(value) ==
    LET count == py_str(value)
    IN  IF count = <<">", "1", "0">> THEN [err |-> "none", val |-> 100]
        ELSE IF count = <<"1">> THEN [err |-> "none", val |-> 0]
        ELSE int_value(value)

\* the quantity branch of market.create_stocks
market_stock_count(value) ==
    LET count == py_str(value)
    IN  IF count = <<">", "1", "0">> THEN [err |-> "none", val |-> 100]
        ELSE IF count = <<"1">> THEN [err |-> "none", val |-> 0]
        ELSE int_value(value)

seller_stock_record(code, stock) == [offer_id |-> code, stock |-> stock]

market_stock_record(code, warehouse_id, stock) ==
    [sku |-> code, warehouseId |-> warehouse_id,
     items |-> <<[count |-> stock, type |-> "FIT", updatedAt |-> "utcnow"]>>]

\* the loop over watch_remnants of seller.create_stocks; ids is mutated in place
RECURSIVE seller_match_loop(_, _, _, _)
seller_match_loop(rows, i, ids, acc) ==
    IF i > Len(rows) THEN [err |-> "none", ret |-> acc, offer_ids |-> ids]
    ELSE IF Contains(ids, rows[i].code)
    THEN LET c == seller_stock_count(rows[i].qty)
         IN  IF c.err # "none"
             THEN [err |-> c.err, ret |-> <<>>, offer_ids |-> ids]
             ELSE seller_match_loop(rows, i + 1, list_remove(ids, rows[i].code),
                      Append(acc, seller_stock_record(rows[i].code, c.val)))
    ELSE seller_match_loop(rows, i + 1, ids, acc)

seller_create_stocks_zero_first(rows, ids) ==
    LET m == seller_match_loop(rows, 1, ids, <<>>)
    IN  IF m.err # "none" THEN m
        ELSE [m EXCEPT !.ret =
                 [k \in 1..Len(m.offer_ids) |-> seller_stock_record(m.offer_ids[k], 0)] \o @]

seller_create_stocks(rows, ids) ==
    LET m == seller_match_loop(rows, 1, ids, <<>>)
    IN  IF m.err # "none" THEN m
        ELSE [m EXCEPT !.ret =
                 @ \o [k \in 1..Len(m.offer_ids) |-> seller_stock_record(m.offer_ids[k], 0)]]

RECURSIVE market_match_loop(_, _, _, _, _)
market_match_loop(rows, i, ids, warehouse_id, acc) ==
    IF i > Len(rows) THEN [err |-> "none", ret |-> acc, offer_ids |-> ids]
    ELSE IF Contains(ids, rows[i].code)
    THEN LET c == market_stock_count(rows[i].qty)
         IN  IF c.err # "none"
             THEN [err |-> c.err, ret |-> <<>>, offer_ids |-> ids]
             ELSE market_match_loop(rows, i + 1, list_remove(ids, rows[i].code),
                      warehouse_id,
                      Append(acc, market_stock_record(rows[i].code, warehouse_id, c.val)))
    ELSE market_match_loop(rows, i + 1, ids, warehouse_id, acc)

market_create_stocks(rows, ids, warehouse_id) ==
    LET m == market_match_loop(rows, 1, ids, warehouse_id, <<>>)
    IN  IF m.err # "none" THEN m
        ELSE [m EXCEPT !.ret =
                 @ \o [k \in 1..Len(m.offer_ids) |->
                          market_stock_record(m.offer_ids[k], warehouse_id, 0)]]

seller_price_record(row) ==
    [auto_action_enabled |-> "UNKNOWN", currency_code |-> "RUB",
     offer_id |-> row.code, old_price |-> "0", price |-> price_conversion(row.price)]

\* a variant that consumes one occurrence of the code per emitted price
RECURSIVE seller_prices_consuming(_, _)
seller_prices_consuming(rows, ids) ==
    IF rows = <<>> THEN [err |-> "none", ret |-> <<>>]
    ELSE IF Contains(ids, Head(rows).code)
    THEN LET rest == seller_prices_consuming(Tail(rows), list_remove(ids, Head(rows).code))
         IN  [rest EXCEPT !.ret = <<seller_price_record(Head(rows))>> \o @]
    ELSE seller_prices_consuming(Tail(rows), ids)

\* seller.create_prices: ids is only read
seller_create_prices(rows, ids) ==
    LET hit == SelectSeq(rows, LAMBDA w : Contains(ids, w.code))
    IN  [err |-> "none", ret |-> [k \in 1..Len(hit) |-> seller_price_record(hit[k])]]

\* market.create_prices: int(price_conversion(...)) raises on a price without digits
RECURSIVE market_price_loop(_, _, _, _)
market_price_loop(rows, i, ids, acc) ==
    IF i > Len(rows) THEN [err |-> "none", ret |-> acc]
    ELSE IF Contains(ids, rows[i].code)
    THEN LET v == py_int(price_conversion(rows[i].price))
         IN  IF v.err # "none" THEN [err |-> v.err, ret |-> <<>>]
             ELSE market_price_loop(rows, i + 1, ids,
                      Append(acc, [id |-> rows[i].code,
                                   price |-> [value |-> v.val, currencyId |-> "RUR"]]))
    ELSE market_price_loop(rows, i + 1, ids, acc)

market_create_prices(rows, ids) == market_price_loop(rows, 1, ids, <<>>)

\* the offer id / count carried by a stock record, and the offer id of a price
\* record, whatever the marketplace's shape
StockId(p, r) == IF p = "seller" THEN r.offer_id ELSE r.sku
StockCount(p, r) == IF p = "seller" THEN r.stock ELSE r.items[1].count
PriceId(p, r) == IF p = "seller" THEN r.offer_id ELSE r.id

----------------------------------------------------------------------------
(* Inputs.                                                                 *)

OfferCodes == {"a", "b"}

\* codes of the vendor's sheet: the marketplace's, and one no marketplace lists
FeedCodes == OfferCodes \cup {"z"}

\* quantity cells and price texts as the vendor's sheet carries them
Tokens ==
    { [qty |-> StrCell(<<">", "1", "0">>),
       price |-> <<"5", "'", "9", "9", "0", ".", "0", "0", " ", "r", "u", "b", ".">>],
      [qty |-> StrCell(<<"1">>),
       price |-> <<"1", "2", "3", "4", ".", "5", "6", " ", "U", "S", "D">>],
      [qty |-> StrCell(<<"7">>),      price |-> <<"9", "9">>],
      [qty |-> StrCell(<<"-", "3">>), price |-> <<".", "5", "0">>],
      [qty |-> StrCell(<<"\t", "U+0661", "_", "2", "U+00A0">>), price |-> <<>>],
      [qty |-> StrCell(<<"x">>),      price |-> <<"r", "u", "b", ".">>],
      [qty |-> IntCell(1),            price |-> <<"9", "9">>],
      [qty |-> FloatCell(25),         price |-> <<"9", "9">>],
      [qty |-> BoolCell(TRUE),        price |-> <<"9", "9">>],
      [qty |-> NoneCell,              price |-> <<"9", "9">>] }

\* the cells a row of an unlisted code is given: create_stocks never reads them
UnlistedTokens ==
    {t \in Tokens : t.qty \in {StrCell(<<"7">>), StrCell(<<"x">>)}}

Rows ==
    {[code |-> c, qty |-> t.qty, price |-> t.price] : c \in OfferCodes, t \in Tokens}
        \cup {[code |-> c, qty |-> t.qty, price |-> t.price] :
                 c \in FeedCodes \ OfferCodes, t \in UnlistedTokens}

Unset == [err |-> "unset", ret |-> <<>>]

Idle ==
    /\ upstream = <<>> /\ nfetch = 0 /\ cursor = "" /\ product_list = <<>>
    /\ fetch_log = <<>> /\ pending = <<>> /\ calls = <<>>
    /\ bsize = [stocks |-> 0, prices |-> 0] /\ not_empty = <<>> /\ err = "none"

NoDivide == lst = <<>> /\ n = 0 /\ out = [err |-> "unset", slices |-> <<>>]

NoReconcile ==
    /\ watch_remnants = <<>> /\ known = <<>> /\ offer_ids = <<>>
    /\ stocks = Unset /\ prices = Unset

----------------------------------------------------------------------------
(* SpecReconcile: create_stocks, then create_prices, of either marketplace  *)
(* applied to a feed and a list of known offer ids.                        *)

InitReconcile ==
    /\ campaign = "none"
    /\ prog \in {"seller", "market"}
    /\ pc = "start"
    /\ watch_remnants \in SeqsUpTo(Rows, MaxFeed)
    /\ known \in SeqsUpTo(OfferCodes, MaxOffers)
    /\ offer_ids = known
    /\ stocks = Unset /\ prices = Unset
    /\ Idle /\ NoDivide

\* stocks = create_stocks(watch_remnants, offer_ids)
CreateStocks ==
    /\ pc = "start"
    /\ LET r == IF prog = "seller"
                THEN seller_create_stocks(watch_remnants, offer_ids)
                ELSE market_create_stocks(watch_remnants, offer_ids, "wh")
       IN  /\ stocks' = [err |-> r.err, ret |-> r.ret]
           /\ offer_ids' = r.offer_ids
    /\ pc' = "stocks"
    /\ UNCHANGED <<campaign, not_empty, prog, watch_remnants, upstream, nfetch, cursor,
                   product_list,
                   fetch_log, known, prices, pending, calls, bsize, err, lst, n, out>>

\* prices = create_prices(watch_remnants, K) with K a fresh copy of the known offers
CreatePrices ==
    /\ pc = "stocks"
    /\ prices' = IF prog = "seller"
                 THEN seller_create_prices(watch_remnants, known)
                 ELSE market_create_prices(watch_remnants, known)
    /\ pc' = "prices"
    /\ UNCHANGED <<campaign, not_empty, prog, watch_remnants, upstream, nfetch, cursor,
                   product_list,
                   fetch_log, known, offer_ids, stocks, pending, calls, bsize, err,
                   lst, n, out>>

NextReconcile == CreateStocks \/ CreatePrices

SpecReconcile == InitReconcile /\ [][NextReconcile]_vars

----------------------------------------------------------------------------
(* Properties of the reconciliation, stated by counting occurrences and not *)
(* by replaying the list operations of the code.                           *)

Returned(r) == r.err = "none"

\* how many of the first i feed rows carry code c
Seen(rows, i, c) == Cardinality({j \in 1..i : rows[j].code = c})

\* feed rows that find an occurrence of their code not yet taken by an earlier row
MatchedIdx(rows, K) == {i \in 1..Len(rows) : Seen(rows, i, rows[i].code) <= Count(K, rows[i].code)}

\* feed rows whose code occurs in K at all
MemberIdx(rows, K) == {i \in 1..Len(rows) : Contains(K, rows[i].code)}

\* the k-th smallest element of a set of indices
Nth(S, k) == CHOOSE i \in S : Cardinality({j \in S : j <= i}) = k

\* positions of K left over once each matched row has taken the earliest free
\* occurrence of its code
LeftIdx(rows, K) ==
    {j \in 1..Len(K) :
        Cardinality({m \in 1..j : K[m] = K[j]})
            > Cardinality({i \in MatchedIdx(rows, K) : rows[i].code = K[j]})}

StocksDone == pc \in {"stocks", "prices"}

\* C1: whenever create_stocks returns, it returns exactly |K| records and every
\* code occurs among their offer ids exactly as often as it occurs in K.
C1_Completeness ==
    (StocksDone /\ Returned(stocks)) =>
        /\ Len(stocks.ret) = Len(known)
        /\ \A c \in OfferCodes \cup {StockId(prog, stocks.ret[k]) : k \in 1..Len(stocks.ret)} :
               Cardinality({k \in 1..Len(stocks.ret) : StockId(prog, stocks.ret[k]) = c})
                   = Count(known, c)

\* a returned reconciliation of a K with a repeated id against a feed that holds
\* both a matching and an unknown code
C1_Witness ==
    /\ pc = "stocks" /\ Returned(stocks)
    /\ \E c \in OfferCodes : Count(known, c) = 2
    /\ \E i \in 1..Len(watch_remnants) : ~Contains(known, watch_remnants[i].code)
    /\ \E i \in 1..Len(watch_remnants) : Contains(known, watch_remnants[i].code)

PricesDone == pc = "prices" /\ Returned(stocks) /\ Returned(prices)

\* C2 as claimed: the price records are, in feed order, those of the feed rows
\* that were matched (each match consuming one occurrence of the code).
C2_PricesFollowMatches ==
    PricesDone =>
        /\ Len(prices.ret) = Cardinality(MatchedIdx(watch_remnants, known))
        /\ \A k \in 1..Len(prices.ret) :
               k <= Len(stocks.ret)
               /\ PriceId(prog, prices.ret[k]) = StockId(prog, stocks.ret[k])

\* C2 amended: create_prices emits one price record per feed row whose code
\* occurs in K, in feed order, consuming nothing: a code that occurs twice in the
\* feed and once in K yields two price records, an unknown code yields none.
C2_PricesFollowMembership ==
    (pc = "prices" /\ Returned(prices)) =>
        LET S == MemberIdx(watch_remnants, known)
        IN  /\ Len(prices.ret) = Cardinality(S)
            /\ \A k \in 1..Len(prices.ret) :
                   PriceId(prog, prices.ret[k]) = watch_remnants[Nth(S, k)].code

\* a code twice in the feed, once in K: two price records, one matched stock
C2_Witness ==
    /\ PricesDone
    /\ Len(watch_remnants) = 2
    /\ watch_remnants[1].code = watch_remnants[2].code
    /\ Count(known, watch_remnants[1].code) = 1
    /\ Len(prices.ret) = 2
    /\ Cardinality(MatchedIdx(watch_remnants, known)) = 1

\* C6: the returned stock list is the matched rows in feed order followed by the
\* unmatched occurrences of K in K's order, the latter with count 0.
C6_Ordering ==
    (StocksDone /\ Returned(stocks)) =>
        LET M == MatchedIdx(watch_remnants, known)
            L == LeftIdx(watch_remnants, known)
            m == Cardinality(M)
        IN  /\ Len(stocks.ret) = m + Cardinality(L)
            /\ \A k \in 1..m :
                   StockId(prog, stocks.ret[k]) = watch_remnants[Nth(M, k)].code
            /\ \A k \in 1..Cardinality(L) :
                   /\ StockId(prog, stocks.ret[m + k]) = known[Nth(L, k)]
                   /\ StockCount(prog, stocks.ret[m + k]) = 0

\* an id twice in K around another id, once in the feed: one matched record, and
\* the second occurrence zero-filled after the other id
C6_Witness ==
    /\ pc = "stocks" /\ Returned(stocks)
    /\ Len(known) = 3 /\ known[1] = known[3] /\ known[1] # known[2]
    /\ Len(watch_remnants) = 1 /\ watch_remnants[1].code = known[1]
    /\ Len(stocks.ret) = 3
    /\ StockId(prog, stocks.ret[2]) = known[2]
    /\ StockId(prog, stocks.ret[3]) = known[1]
    /\ StockCount(prog, stocks.ret[3]) = 0

\* the cells of the vendor's sheet whose text is ">10", "1" or an integer, and the
\* count each stands for
IntendedCount(qty) ==
    CASE qty = StrCell(<<">", "1", "0">>) -> 100
      [] qty = StrCell(<<"1">>)           -> 0
      [] qty = IntCell(1)                 -> 0
      [] qty = StrCell(<<"7">>)           -> 7
      [] qty = StrCell(<<"-", "3">>)      -> 0 - 3
      [] qty = StrCell(<<"\t", "U+0661", "_", "2", "U+00A0">>) -> 12

CountCells ==
    {StrCell(<<">", "1", "0">>), StrCell(<<"1">>), IntCell(1), StrCell(<<"7">>),
     StrCell(<<"-", "3">>), StrCell(<<"\t", "U+0661", "_", "2", "U+00A0">>)}

\* C10: the record of a matched row carries 100 for ">10", 0 for "1" and the
\* integer's value for an integer; create_stocks fails, returning no list,
\* exactly when a matched row carries a quantity that is none of these.
C10_Counts ==
    StocksDone =>
        LET M == MatchedIdx(watch_remnants, known)
            bad == \E i \in M : watch_remnants[i].qty \notin CountCells
        IN  /\ Returned(stocks) <=> ~bad
            /\ (Returned(stocks) /\ ~bad) =>
                   \A k \in 1..Cardinality(M) :
                       StockCount(prog, stocks.ret[k])
                           = IntendedCount(watch_remnants[Nth(M, k)].qty)

\* the same for sheets whose quantity cells are all texts or integers: there the
\* branch fails with ValueError exactly on a text that is no integer
TextQuantities ==
    \A i \in 1..Len(watch_remnants) : watch_remnants[i].qty.type \in {"str", "int"}

CountsOfTextCells ==
    (StocksDone /\ TextQuantities) =>
        LET M == MatchedIdx(watch_remnants, known)
            bad == \E i \in M : watch_remnants[i].qty \notin CountCells
        IN  /\ (stocks.err = "ValueError") <=> bad
            /\ Returned(stocks) <=> ~bad
            /\ Returned(stocks) =>
                   \A k \in 1..Cardinality(M) :
                       StockCount(prog, stocks.ret[k])
                           = IntendedCount(watch_remnants[Nth(M, k)].qty)

\* two matched rows, "1" and ">10", giving 0 and 100
C10_Witness ==
    /\ pc = "stocks" /\ Returned(stocks)
    /\ Len(watch_remnants) = 2
    /\ watch_remnants[1].qty = StrCell(<<"1">>)
    /\ watch_remnants[2].qty = StrCell(<<">", "1", "0">>)
    /\ MatchedIdx(watch_remnants, known) = {1, 2}
    /\ StockCount(prog, stocks.ret[1]) = 0
    /\ StockCount(prog, stocks.ret[2]) = 100

----------------------------------------------------------------------------
(* SpecDivide: list(divide(lst, n)) on a list and a size, sizes <= 0        *)
(* included.                                                               *)

InitDivide ==
    /\ campaign = "none"
    /\ prog = "divide"
    /\ pc = "start"
    /\ lst \in SeqsUpTo({"x", "y"}, MaxLen)
    /\ n \in (0 - MaxN)..MaxN
    /\ out = [err |-> "unset", slices |-> <<>>]
    /\ Idle /\ NoReconcile

\* out = list(divide(lst, n)); the slices are new lists and lst is not touched
Divide ==
    /\ prog = "divide" /\ pc = "start"
    /\ out' = divide(lst, n)
    /\ pc' = "done"
    /\ UNCHANGED <<campaign, not_empty, prog, watch_remnants, upstream, nfetch, cursor,
                   product_list,
                   fetch_log, known, offer_ids, stocks, prices, pending, calls,
                   bsize, err, lst, n>>

NextDivide == Divide

SpecDivide == InitDivide /\ [][NextDivide]_vars

Divided == prog = "divide" /\ pc = "done"

\* C7: for a positive size the slices are contiguous, their concatenation is the
\* input, every slice but the last holds n elements and the last holds len % n
\* (n when n divides len), an empty list gives no slice; the input is unchanged.
C7_Partition ==
    (Divided /\ n > 0) =>
        /\ out.err = "none"
        /\ Flatten(out.slices) = lst
        /\ \A j \in 1..(Len(out.slices) - 1) : Len(out.slices[j]) = n
        /\ Len(out.slices) > 0 =>
               Len(out.slices[Len(out.slices)])
                   = (IF Len(lst) % n = 0 THEN n ELSE Len(lst) % n)
        /\ (lst = <<>>) <=> (out.slices = <<>>)

\* the call leaves its list argument as it was (the slices are copies)
DivideKeepsInput == [][Divide => lst' = lst]_vars

\* a list whose length the size does not divide: full slices and a remainder
C7_Witness ==
    /\ Divided /\ n = 2 /\ Len(lst) = 3
    /\ Len(out.slices) = 2
    /\ Len(out.slices[1]) = 2 /\ Len(out.slices[2]) = 1

\* C8 as claimed: every size n <= 0 makes divide fail and yield no slice.
C8_NonPositiveFails ==
    (Divided /\ n <= 0) => (out.err = "ValueError" /\ out.slices = <<>>)

\* C8 amended: divide fails (ValueError) exactly for n = 0, whatever the list;
\* for n < 0 it raises nothing and yields no slice, whatever the list.
C8_ZeroFailsNegativeEmpty ==
    (Divided /\ n <= 0) =>
        /\ out.slices = <<>>
        /\ (n = 0) => out.err = "ValueError"
        /\ (n < 0) => out.err = "none"

\* a negative size on a non-empty list: no error, nothing yielded
C8_Witness ==
    Divided /\ n < 0 /\ lst # <<>> /\ out.err = "none" /\ out.slices = <<>>

----------------------------------------------------------------------------
(* get_offer_ids: the pagination loops.  A response of get_product_list is *)
(* the "result" object of the marketplace's answer; an absent              *)
(* nextPageToken reads as None, written "None" here.                        *)

SellerProgs == {"seller", "seller.get_offer_ids", "seller.upload_stocks",
                "seller.upload_prices", "seller.main"}

Variant(p) == IF p \in SellerProgs THEN "seller" ELSE "market"

SellerItem(c) == [offer_id |-> c]
MarketEntry(c) == [offer |-> [shopSku |-> c]]

\* one turn of the while-loop of seller.get_offer_ids, after the fetch returned
seller_page_step_no_cursor(plist, resp) ==
    LET all == plist \o resp.items
    IN  [product_list |-> all, cursor |-> "", stop |-> resp.total = Len(all)]

seller_page_step(plist, resp) ==
    LET all == plist \o resp.items
    IN  [product_list |-> all, cursor |-> resp.last_id, stop |-> resp.total = Len(all)]

\* one turn of the while-loop of market.get_offer_ids: "not page" holds for None
\* and for the empty string
market_page_step(plist, resp) ==
    LET all == plist \o resp.offerMappingEntries
        page == resp.paging.nextPageToken
    IN  [product_list |-> all, cursor |-> page, stop |-> page \in {"None", ""}]

page_step(p, plist, resp) ==
    IF Variant(p) = "seller" THEN seller_page_step(plist, resp)
    ELSE market_page_step(plist, resp)

\* the final loop of get_offer_ids: the offer id of every accumulated entry
seller_offer_ids(plist) == [k \in 1..Len(plist) |-> plist[k].offer_id]
market_offer_ids(plist) == [k \in 1..Len(plist) |-> plist[k].offer.shopSku]

collect_offer_ids(p, plist) ==
    IF Variant(p) = "seller" THEN seller_offer_ids(plist) ELSE market_offer_ids(plist)

\* where an entry point goes once get_offer_ids has returned
AfterList(p) ==
    CASE p \in {"seller.get_offer_ids", "market.get_offer_ids"} -> "listed"
      [] p = "seller.main" -> "download"
      [] p = "market.main" -> "create_stocks"
      [] p \in {"seller.upload_stocks", "market.upload_stocks"} -> "create_stocks"
      [] p \in {"seller.upload_prices", "market.upload_prices"} -> "create_prices"

\* where an exception goes: main catches and prints it, the other entry points
\* let it propagate to their caller
AfterRaise(p) == IF p \in {"seller.main", "market.main"} THEN "caught" ELSE "raised"

\* some_prod = get_product_list(cursor, ...) succeeds, and the rest of the turn
Fetch ==
    /\ pc = "list"
    /\ nfetch < MaxPages
    /\ \E resp \in upstream :
         LET t == page_step(prog, product_list, resp)
         IN  /\ fetch_log' = Append(fetch_log, [cursor |-> cursor, ok |-> TRUE, resp |-> resp])
             /\ product_list' = t.product_list
             /\ cursor' = t.cursor
             /\ IF t.stop
                THEN /\ known' = collect_offer_ids(prog, t.product_list)
                     /\ offer_ids' = collect_offer_ids(prog, t.product_list)
                     /\ pc' = AfterList(prog)
                ELSE /\ UNCHANGED <<known, offer_ids>>
                     /\ pc' = "list"
    /\ nfetch' = nfetch + 1
    /\ UNCHANGED <<campaign, not_empty, prog, watch_remnants, upstream, stocks, prices,
                   pending, calls,
                   bsize, err, lst, n, out>>

\* get_product_list raises (raise_for_status, or the transport)
FetchFails ==
    /\ pc = "list"
    /\ nfetch < MaxPages
    /\ \E e \in {"HTTPError", "ConnectionError"} : err' = e
    /\ nfetch' = nfetch + 1
    /\ fetch_log' = Append(fetch_log, [cursor |-> cursor, ok |-> FALSE, resp |-> <<>>])
    /\ pc' = AfterRaise(prog)
    /\ UNCHANGED <<campaign, not_empty, prog, watch_remnants, upstream, cursor,
                   product_list, known,
                   offer_ids, stocks, prices, pending, calls, bsize, lst, n, out>>

ItemLists == {<<>>, <<"a">>, <<"a", "b">>}

SellerResponses ==
    {[items |-> [k \in 1..Len(c) |-> SellerItem(c[k])], total |-> t, last_id |-> l] :
        c \in ItemLists, t \in {1, 2, 3}, l \in {"x", "y"}}

MarketResponses ==
    {[offerMappingEntries |-> [k \in 1..Len(c) |-> MarketEntry(c[k])],
      paging |-> [nextPageToken |-> t]] :
        c \in ItemLists, t \in {"None", "", "t1", "t2"}}

InitLister ==
    /\ campaign = "none"
    /\ prog \in {"seller.get_offer_ids", "market.get_offer_ids"}
    /\ pc = "list"
    /\ upstream = IF Variant(prog) = "seller" THEN SellerResponses ELSE MarketResponses
    /\ nfetch = 0 /\ cursor = "" /\ product_list = <<>> /\ fetch_log = <<>>
    /\ pending = <<>> /\ calls = <<>> /\ bsize = [stocks |-> 0, prices |-> 0]
    /\ not_empty = <<>> /\ err = "none"
    /\ NoReconcile /\ NoDivide

NextLister == Fetch \/ FetchFails

SpecLister == InitLister /\ [][NextLister]_vars

\* the pages fetched so far (a raised fetch returned none)
Pages == SelectSeq(fetch_log, LAMBDA f : f.ok)

EntriesOf(p, resp) == IF Variant(p) = "seller" THEN resp.items ELSE resp.offerMappingEntries
CursorOf(p, resp) == IF Variant(p) = "seller" THEN resp.last_id ELSE resp.paging.nextPageToken
EntryId(p, e) == IF Variant(p) = "seller" THEN e.offer_id ELSE e.offer.shopSku

RECURSIVE EntriesThrough(_, _, _)
EntriesThrough(p, log, i) ==
    IF i = 0 THEN <<>> ELSE EntriesThrough(p, log, i - 1) \o EntriesOf(p, log[i].resp)

\* the i-th fetched page signals the end of the catalog
EndSignal(p, log, i) ==
    IF Variant(p) = "seller"
    THEN log[i].resp.total = Len(EntriesThrough(p, log, i))
    ELSE log[i].resp.paging.nextPageToken \in {"None", ""}

\* C9: the first fetch passes "" and each later fetch the cursor of the page
\* before; no page is fetched after a page that signals the end; the list
\* returned holds the offer id of every entry of every fetched page, in page
\* order and within-page order, repeats kept, and is returned at the end signal.
C9_Listing ==
    LET log == Pages
        all == EntriesThrough(prog, log, Len(log))
    IN  /\ \A i \in 1..Len(fetch_log) :
               fetch_log[i].cursor
                   = (IF i = 1 THEN "" ELSE CursorOf(prog, fetch_log[i-1].resp))
        /\ \A i \in 1..(Len(log) - 1) : ~EndSignal(prog, log, i)
        /\ (pc = "list" /\ log # <<>>) => ~EndSignal(prog, log, Len(log))
        /\ pc = "listed" =>
               /\ EndSignal(prog, log, Len(log))
               /\ Len(known) = Len(all)
               /\ \A k \in 1..Len(all) : known[k] = EntryId(prog, all[k])

\* a listing of three pages that returned an id twice, the cursors differing
C9_Witness ==
    /\ pc = "listed" /\ Len(fetch_log) = 3
    /\ fetch_log[2].cursor # fetch_log[3].cursor
    /\ fetch_log[2].cursor # ""
    /\ \E i, j \in 1..Len(known) : i # j /\ known[i] = known[j]

----------------------------------------------------------------------------
(* The submission loops: upload_stocks and upload_prices of both scripts.  *)

\* batch sizes written at the call sites of divide
SELLER_STOCKS_BATCH == 100
SELLER_PRICES_BATCH == 1000
SELLER_MAIN_PRICES_BATCH == 900
MARKET_STOCKS_BATCH == 2000
MARKET_PRICES_BATCH == 500

CodeBatch(p) ==
    CASE p = "seller.main" ->
             [stocks |-> SELLER_STOCKS_BATCH, prices |-> SELLER_MAIN_PRICES_BATCH]
      [] p \in {"seller.upload_stocks", "seller.upload_prices"} ->
             [stocks |-> SELLER_STOCKS_BATCH, prices |-> SELLER_PRICES_BATCH]
      [] OTHER ->
             [stocks |-> MARKET_STOCKS_BATCH, prices |-> MARKET_PRICES_BATCH]

\* The feeds and catalogs of the model are far shorter than a batch of the code,
\* so each run is also made with the call sites' sizes scaled down to 1..MaxBatch,
\* which makes a list span several batches.
BatchChoices(p) == {CodeBatch(p)} \cup {[stocks |-> i, prices |-> i] : i \in 1..MaxBatch}

\* what an update_stocks / update_price call does with the marketplace's answer:
\* requests raises on a transport failure, raise_for_status on a rejection
update_result_unchecked(outcome) == IF outcome = "ConnectionError" THEN outcome ELSE "none"

update_result(outcome) == IF outcome = "ok" THEN "none" ELSE outcome

Outcomes == {"ok", "HTTPError", "ConnectionError"}

\* where an entry point goes after its stock batches / its price batches
AfterStocks(p) ==
    CASE p \in {"seller.upload_stocks", "market.upload_stocks"} -> "filter"
      [] p = "seller.main" -> "create_prices"
      [] OTHER -> "upload_prices"

AfterPrices(p) == "done"

\* the warehouse id handed to create_stocks: main passes the running campaign's
\* warehouse, upload_stocks its own argument
Warehouse ==
    CASE campaign = "fbs" -> "wh_fbs"
      [] campaign = "dbs" -> "wh_dbs"
      [] OTHER -> "wh"

\* stocks = create_stocks(watch_remnants, offer_ids[, warehouse_id]) and the
\* list(divide(stocks, size)) that heads the for-loop
CallCreateStocks ==
    /\ pc = "create_stocks"
    /\ LET r == IF Variant(prog) = "seller"
                THEN seller_create_stocks(watch_remnants, offer_ids)
                ELSE market_create_stocks(watch_remnants, offer_ids, Warehouse)
           d == divide(r.ret, bsize.stocks)
       IN  /\ stocks' = [err |-> r.err, ret |-> r.ret]
           /\ offer_ids' = r.offer_ids
           /\ IF r.err # "none" \/ d.err # "none"
              THEN /\ err' = (IF r.err # "none" THEN r.err ELSE d.err)
                   /\ pc' = AfterRaise(prog)
                   /\ pending' = <<>>
              ELSE /\ err' = err
                   /\ pending' = d.slices
                   /\ pc' = IF d.slices = <<>> THEN AfterStocks(prog) ELSE "submit_stocks"
    /\ UNCHANGED <<campaign, prog, watch_remnants, upstream, nfetch, cursor, product_list,
                   fetch_log, known, prices, calls, bsize, not_empty, lst, n, out>>

\* prices = create_prices(watch_remnants, offer_ids) and list(divide(prices, size))
CallCreatePrices ==
    /\ pc = "create_prices"
    /\ LET r == IF Variant(prog) = "seller"
                THEN seller_create_prices(watch_remnants, offer_ids)
                ELSE market_create_prices(watch_remnants, offer_ids)
           d == divide(r.ret, bsize.prices)
       IN  /\ prices' = r
           /\ IF r.err # "none" \/ d.err # "none"
              THEN /\ err' = (IF r.err # "none" THEN r.err ELSE d.err)
                   /\ pc' = AfterRaise(prog)
                   /\ pending' = <<>>
              ELSE /\ err' = err
                   /\ pending' = d.slices
                   /\ pc' = IF d.slices = <<>> THEN AfterPrices(prog) ELSE "submit_prices"
    /\ UNCHANGED <<campaign, prog, watch_remnants, upstream, nfetch, cursor, product_list,
                   fetch_log, known, offer_ids, stocks, calls, bsize, not_empty,
                   lst, n, out>>

\* one turn of a for-loop: update_stocks(some_stock, ...) / update_price(some_price, ...)
Submit ==
    /\ pc \in {"submit_stocks", "submit_prices"}
    /\ pending # <<>>
    /\ \E outcome \in Outcomes :
         LET e == update_result(outcome)
         IN  /\ calls' = Append(calls,
                    [api |-> IF pc = "submit_stocks" THEN "update_stocks" ELSE "update_price",
                     batch |-> Head(pending), outcome |-> outcome])
             /\ IF e = "none"
                THEN /\ pending' = Tail(pending)
                     /\ err' = err
                     /\ pc' = IF Tail(pending) # <<>> THEN pc
                              ELSE IF pc = "submit_stocks" THEN AfterStocks(prog)
                              ELSE AfterPrices(prog)
                ELSE /\ pending' = pending
                     /\ err' = e
                     /\ pc' = AfterRaise(prog)
    /\ UNCHANGED <<campaign, prog, watch_remnants, upstream, nfetch, cursor, product_list,
                   fetch_log, known, offer_ids, stocks, prices, bsize, not_empty,
                   lst, n, out>>

\* not_empty = list(filter(...)); return not_empty, stocks
FilterNotEmpty ==
    /\ pc = "filter"
    /\ not_empty' = SelectSeq(stocks.ret, LAMBDA r : StockCount(Variant(prog), r) # 0)
    /\ pc' = "done"
    /\ UNCHANGED <<campaign, prog, watch_remnants, upstream, nfetch, cursor, product_list,
                   fetch_log, known, offer_ids, stocks, prices, pending, calls, bsize,
                   err, lst, n, out>>

\* rows of the feeds the submission runs are made on: one well-formed, one whose
\* quantity and price are both malformed, one whose quantity is a float cell
UploadRows ==
    {[code |-> c, qty |-> t.qty, price |-> t.price] :
        c \in OfferCodes,
        t \in {[qty |-> StrCell(<<"7">>), price |-> <<"9", "9">>],
               [qty |-> StrCell(<<"x">>), price |-> <<"r", "u", "b", ".">>],
               [qty |-> FloatCell(25),    price |-> <<"9", "9">>]}}

\* the answers the marketplace may give to a page fetch during a submission run
UploadSellerResponses ==
    {[items |-> <<SellerItem("a"), SellerItem("b")>>, total |-> 5, last_id |-> "x"],
     [items |-> <<SellerItem("a")>>, total |-> 3, last_id |-> "y"]}

UploadMarketResponses ==
    {[offerMappingEntries |-> <<MarketEntry("a"), MarketEntry("b")>>,
      paging |-> [nextPageToken |-> "t1"]],
     [offerMappingEntries |-> <<MarketEntry("a")>>,
      paging |-> [nextPageToken |-> "None"]]}

InitUpload ==
    /\ campaign = "none"
    /\ prog \in {"seller.upload_stocks", "seller.upload_prices",
                 "market.upload_stocks", "market.upload_prices"}
    /\ pc = "list"
    /\ watch_remnants \in SeqsUpTo(UploadRows, MaxFeed)
    /\ upstream = IF Variant(prog) = "seller" THEN UploadSellerResponses
                  ELSE UploadMarketResponses
    /\ bsize \in BatchChoices(prog)
    /\ nfetch = 0 /\ cursor = "" /\ product_list = <<>> /\ fetch_log = <<>>
    /\ known = <<>> /\ offer_ids = <<>> /\ stocks = Unset /\ prices = Unset
    /\ pending = <<>> /\ calls = <<>> /\ not_empty = <<>> /\ err = "none"
    /\ NoDivide

NextUpload ==
    \/ Fetch
    \/ FetchFails
    \/ CallCreateStocks
    \/ CallCreatePrices
    \/ Submit
    \/ FilterNotEmpty

SpecUpload == InitUpload /\ [][NextUpload]_vars

\* the list a submission run reconciles, the size it batches by, the client it calls
Reconciled ==
    IF prog \in {"seller.upload_stocks", "market.upload_stocks"} THEN stocks ELSE prices
BatchBy ==
    IF prog \in {"seller.upload_stocks", "market.upload_stocks"}
    THEN bsize.stocks ELSE bsize.prices
Client ==
    IF prog \in {"seller.upload_stocks", "market.upload_stocks"}
    THEN "update_stocks" ELSE "update_price"

\* the k-th batch of a list R cut by B, by position
BatchAt(R, B, k) == SubSeq(R, (k - 1) * B + 1, Min(k * B, Len(R)))

\* C4: the k-th call of a run carries the k-th batch of the reconciled list and
\* is issued only once call k-1 has returned; no call carries an empty batch;
\* every batch holds B records but the last, which holds the remainder; a run
\* that returns has made ceil(N/B) calls (none for N = 0).
C4_BatchCalls ==
    LET R == Reconciled.ret
        B == BatchBy
        N == Len(R)
    IN  /\ calls # <<>> => Returned(Reconciled)
        /\ \A k \in 1..Len(calls) :
               /\ calls[k].api = Client
               /\ (k - 1) * B < N
               /\ calls[k].batch = BatchAt(R, B, k)
               /\ Len(calls[k].batch) = (IF k * B <= N THEN B ELSE N - (k - 1) * B)
               /\ k > 1 => calls[k-1].outcome = "ok"
        /\ pc = "done" =>
               /\ Len(calls) = (N + B - 1) \div B
               /\ \A k \in 1..Len(calls) : calls[k].outcome = "ok"

\* five records by batches of two: calls of 2, 2 and 1 records, then the return
C4_Witness ==
    /\ pc = "done" /\ BatchBy = 2 /\ Len(Reconciled.ret) = 5
    /\ Len(calls) = 3
    /\ Len(calls[1].batch) = 2 /\ Len(calls[2].batch) = 2 /\ Len(calls[3].batch) = 1

\* C5: a call that fails is the last call of the run: the run has raised that
\* failure to its caller (it did not return), the calls before it are batches
\* 1..k-1 and were accepted, batch k was tried once, and batch k and the batches
\* after it stay unsubmitted.
C5_FailFast ==
    /\ \A k \in 1..Len(calls) :
           calls[k].outcome # "ok" =>
               /\ k = Len(calls)
               /\ pc = "raised" /\ err = calls[k].outcome
               /\ \A j \in 1..(k - 1) :
                      /\ calls[j].outcome = "ok"
                      /\ calls[j].batch = BatchAt(Reconciled.ret, BatchBy, j)
               /\ calls[k].batch = BatchAt(Reconciled.ret, BatchBy, k)
               /\ pending # <<>> /\ Head(pending) = calls[k].batch
               /\ Len(pending) = (Len(Reconciled.ret) + BatchBy - 1) \div BatchBy - (k - 1)
    /\ pc = "done" => \A k \in 1..Len(calls) : calls[k].outcome = "ok"

\* the second of three batches is rejected: one accepted, two never accepted
C5_Witness ==
    /\ pc = "raised" /\ err = "HTTPError"
    /\ Len(calls) = 2
    /\ calls[1].outcome = "ok" /\ calls[2].outcome = "HTTPError"
    /\ Len(pending) = 2

----------------------------------------------------------------------------
(* seller.main: listing, download, stocks, prices, every exception caught   *)
(* and printed.                                                            *)

\* what follows download_stock in a main: seller.main has listed already,
\* market.main lists next
AfterDownload(p) == IF p = "market.main" THEN "list" ELSE "create_stocks"

\* where an exception of download_stock goes: in seller.main the call sits inside
\* the try, in market.main before it
AfterDownloadRaise(p) == IF p = "market.main" THEN "raised" ELSE AfterRaise(p)

\* watch_remnants = download_stock()
Download ==
    /\ pc = "download"
    /\ watch_remnants' \in SeqsUpTo(UploadRows, MaxFeed)
    /\ pc' = AfterDownload(prog)
    /\ UNCHANGED <<campaign, prog, upstream, nfetch, cursor, product_list, fetch_log, known,
                   offer_ids, stocks, prices, pending, calls, bsize, not_empty, err,
                   lst, n, out>>

\* download_stock raises (raise_for_status, or the transport)
DownloadFails ==
    /\ pc = "download"
    /\ \E e \in {"HTTPError", "ConnectionError"} : err' = e
    /\ pc' = AfterDownloadRaise(prog)
    /\ UNCHANGED <<campaign, prog, watch_remnants, upstream, nfetch, cursor, product_list,
                   fetch_log, known, offer_ids, stocks, prices, pending, calls,
                   bsize, not_empty, lst, n, out>>

InitSellerMain ==
    /\ campaign = "none"
    /\ prog = "seller.main"
    /\ pc = "list"
    /\ watch_remnants = <<>>
    /\ upstream = UploadSellerResponses
    /\ bsize \in BatchChoices(prog)
    /\ nfetch = 0 /\ cursor = "" /\ product_list = <<>> /\ fetch_log = <<>>
    /\ known = <<>> /\ offer_ids = <<>> /\ stocks = Unset /\ prices = Unset
    /\ pending = <<>> /\ calls = <<>> /\ not_empty = <<>> /\ err = "none"
    /\ NoDivide

NextSellerMain ==
    \/ Fetch
    \/ FetchFails
    \/ Download
    \/ DownloadFails
    \/ CallCreateStocks
    \/ CallCreatePrices
    \/ Submit

SpecSellerMain == InitSellerMain /\ [][NextSellerMain]_vars

\* the price records a run has submitted, in submission order
RECURSIVE SentTo(_, _)
SentTo(api, cs) ==
    IF cs = <<>> THEN <<>>
    ELSE (IF Head(cs).api = api /\ Head(cs).outcome = "ok" THEN Head(cs).batch ELSE <<>>)
             \o SentTo(api, Tail(cs))

\* C3: a run of seller.main in which no call failed has submitted, through
\* update_price, one price record for every feed row whose code is in the list
\* get_offer_ids returned, in feed order.
C3_PricesForKnownRows ==
    (prog = "seller.main" /\ pc = "done" /\ err = "none") =>
        LET S == MemberIdx(watch_remnants, known)
            sent == SentTo("update_price", calls)
        IN  /\ Len(sent) = Cardinality(S)
            /\ \A k \in 1..Len(sent) : sent[k].offer_id = watch_remnants[Nth(S, k)].code

----------------------------------------------------------------------------
(* Malformed prices and negative quantities through the reconciliation.    *)

\* a price text that keeps no ASCII digit once cut at its first "." and stripped
\* of everything that is no digit, decided on the text itself
NoDigitBeforeDot(price) ==
    \A i \in 1..Len(price) :
        price[i] \in Digits => \E k \in 1..(i - 1) : price[k] = "."

\* the price value a price record carries is empty text (seller.py carries the
\* text, market.py the integer read from it)
EmptyPrice(p, r) == IF p = "seller" THEN r.price = <<>> ELSE FALSE

\* C11: create_prices fails when a row whose code is known carries a price
\* without a digit before its first ".", and no price record it returns carries
\* an empty price value.
C11_NoEmptyPrice ==
    pc = "prices" =>
        /\ (\E i \in MemberIdx(watch_remnants, known) :
                NoDigitBeforeDot(watch_remnants[i].price)) => ~Returned(prices)
        /\ Returned(prices) =>
               \A k \in 1..Len(prices.ret) : ~EmptyPrice(prog, prices.ret[k])

\* C12: every stock record create_stocks returns carries a count >= 0.
C12_NonNegativeCount ==
    (StocksDone /\ Returned(stocks)) =>
        \A k \in 1..Len(stocks.ret) : StockCount(prog, stocks.ret[k]) >= 0

----------------------------------------------------------------------------
(* A malformed quantity under upload_stocks.                               *)

StockUploads == {"seller.upload_stocks", "market.upload_stocks"}

\* upload_stocks has listed the offers and called create_stocks
StocksCalled == prog \in StockUploads /\ stocks # Unset

\* a row of the given indices carries a quantity that is neither ">10", "1" nor
\* an integer
MalformedAmong(S) == \E i \in S : watch_remnants[i].qty \notin CountCells

\* upload_stocks ended in an exception with no call made, no list returned
RaisedBeforeAnyCall ==
    /\ pc = "raised" /\ err # "none"
    /\ calls = <<>> /\ pending = <<>>
    /\ ~Returned(stocks) /\ not_empty = <<>>

\* C13: a malformed quantity on a row whose code is a known offer makes
\* upload_stocks raise before any update_stocks call, so that no batch is
\* submitted and no count is made up. The rows taken here are the matched ones
\* only (the code still has an occurrence left in the working list), which is
\* the least the claim says.
C13_MalformedRaises ==
    (StocksCalled /\ MalformedAmong(MatchedIdx(watch_remnants, known)))
        => RaisedBeforeAnyCall

\* what holds of texts: a matched row whose quantity is a text that is no
\* integer makes upload_stocks raise ValueError with no call made
MalformedTextRaises ==
    (StocksCalled /\ TextQuantities)
        => /\ MalformedAmong(MatchedIdx(watch_remnants, known))
                  => (RaisedBeforeAnyCall /\ err = "ValueError")
           /\ ~MalformedAmong(MatchedIdx(watch_remnants, known))
                  => (err # "ValueError" /\ Returned(stocks))

----------------------------------------------------------------------------
(* market.main: download, then for the FBS and the DBS campaign a listing,  *)
(* the stock batches and a call of the coroutine function upload_prices.   *)

Campaigns == <<"fbs", "dbs">>

\* upload_prices(watch_remnants, campaign_id, market_token) as main writes it:
\* upload_prices is declared async and the call is not awaited, so the call only
\* builds a coroutine object that main drops; no statement of its body runs. The
\* DBS half then starts with get_offer_ids and its fresh locals.
CallUploadPrices ==
    /\ prog = "market.main"
    /\ pc = "upload_prices"
    /\ IF campaign = Campaigns[1]
       THEN /\ campaign' = Campaigns[2]
            /\ pc' = "list"
            /\ nfetch' = 0 /\ cursor' = "" /\ product_list' = <<>>
       ELSE /\ pc' = "done"
            /\ UNCHANGED <<campaign, nfetch, cursor, product_list>>
    /\ UNCHANGED <<prog, watch_remnants, upstream, fetch_log, known, offer_ids, stocks,
                   prices, pending, calls, bsize, not_empty, err, lst, n, out>>

InitMarketMain ==
    /\ prog = "market.main"
    /\ pc = "download"
    /\ campaign = Campaigns[1]
    /\ watch_remnants = <<>>
    /\ upstream = UploadMarketResponses
    /\ bsize \in BatchChoices(prog)
    /\ nfetch = 0 /\ cursor = "" /\ product_list = <<>> /\ fetch_log = <<>>
    /\ known = <<>> /\ offer_ids = <<>> /\ stocks = Unset /\ prices = Unset
    /\ pending = <<>> /\ calls = <<>> /\ not_empty = <<>> /\ err = "none"
    /\ NoDivide

NextMarketMain ==
    \/ Download
    \/ DownloadFails
    \/ Fetch
    \/ FetchFails
    \/ CallCreateStocks
    \/ Submit
    \/ CallUploadPrices

SpecMarketMain == InitMarketMain /\ [][NextMarketMain]_vars

\* positions in calls of the stock batches made for a warehouse, and of the
\* price batches
StockCallsFor(w) ==
    {k \in 1..Len(calls) :
        calls[k].api = "update_stocks" /\ calls[k].batch[1].warehouseId = w}
PriceCalls == {k \in 1..Len(calls) : calls[k].api = "update_price"}

\* offer codes every page of the upstream lists, hence every listing
AlwaysListed ==
    {c \in OfferCodes :
        \A resp \in upstream :
            \E k \in 1..Len(resp.offerMappingEntries) :
                resp.offerMappingEntries[k].offer.shopSku = c}

\* a feed whose prices all read as integers and one of whose rows every listing
\* knows: create_prices gives at least one record for it, whatever the listing
HasPricesToSend ==
    /\ \A i \in 1..Len(watch_remnants) :
           market_create_prices(<<watch_remnants[i]>>, <<watch_remnants[i].code>>).err = "none"
    /\ \E i \in 1..Len(watch_remnants) : watch_remnants[i].code \in AlwaysListed

\* C14: a run of market.main in which no call failed has made, for the FBS
\* campaign, an update_price call after the FBS stock batches and before the DBS
\* ones, and for the DBS campaign an update_price call after the DBS stock
\* batches.
C14_PricesAfterStocks ==
    (prog = "market.main" /\ pc = "done" /\ err = "none" /\ HasPricesToSend) =>
        /\ StockCallsFor("wh_fbs") # {} /\ StockCallsFor("wh_dbs") # {}
        /\ \E j \in PriceCalls :
               /\ \A f \in StockCallsFor("wh_fbs") : f < j
               /\ \A d \in StockCallsFor("wh_dbs") : j < d
        /\ \E j \in PriceCalls : \A d \in StockCallsFor("wh_dbs") : d < j

----------------------------------------------------------------------------
(* Termination of the pagination loop against a finite catalog: the         *)
(* marketplace has finitely many pages to give and answers every later      *)
(* fetch with an empty page. Every fetch succeeds.                          *)

\* the pages a finite catalog may hold
CatalogSellerPages ==
    {[items |-> [k \in 1..Len(c) |-> SellerItem(c[k])], total |-> t, last_id |-> "x"] :
        c \in ItemLists, t \in {2, 3}}

CatalogMarketPages ==
    {[offerMappingEntries |-> [k \in 1..Len(c) |-> MarketEntry(c[k])],
      paging |-> [nextPageToken |-> t]] :
        c \in ItemLists, t \in {"None", "t1"}}

\* what the marketplace answers once its pages are used up: no entries; Ozon
\* repeats the total it reported last and gives some cursor, Yandex gives no
\* nextPageToken
PastTheEnd(p, total) ==
    IF Variant(p) = "seller"
    THEN {[items |-> <<>>, total |-> total, last_id |-> l] : l \in {"x", "y"}}
    ELSE {[offerMappingEntries |-> <<>>, paging |-> [nextPageToken |-> "None"]]}

\* the answers the marketplace may give to the next fetch
NextPage(p, up) == IF up.pages # <<>> THEN {Head(up.pages)} ELSE PastTheEnd(p, up.total)

\* the total the marketplace reported in a page (Yandex reports none)
ReportedTotal(p, resp, before) == IF Variant(p) = "seller" THEN resp.total ELSE before

\* one turn of the while-loop of get_offer_ids, the fetch succeeding; calls are
\* not logged here, the loop being free to make any number of them
CatalogFetch ==
    /\ pc = "list"
    /\ \E resp \in NextPage(prog, upstream) :
         LET t == page_step(prog, product_list, resp)
         IN  /\ product_list' = t.product_list
             /\ cursor' = t.cursor
             /\ upstream' = [pages |-> IF upstream.pages = <<>> THEN <<>>
                                       ELSE Tail(upstream.pages),
                             total |-> ReportedTotal(prog, resp, upstream.total)]
             /\ IF t.stop
                THEN /\ known' = collect_offer_ids(prog, t.product_list)
                     /\ offer_ids' = collect_offer_ids(prog, t.product_list)
                     /\ pc' = AfterList(prog)
                ELSE /\ UNCHANGED <<known, offer_ids>>
                     /\ pc' = "list"
    /\ UNCHANGED <<campaign, prog, watch_remnants, nfetch, fetch_log, stocks, prices,
                   pending, calls, bsize, not_empty, err, lst, n, out>>

InitTermination ==
    /\ campaign = "none"
    /\ prog \in {"seller.get_offer_ids", "market.get_offer_ids"}
    /\ pc = "list"
    /\ \E ps \in SeqsUpTo(IF Variant(prog) = "seller" THEN CatalogSellerPages
                          ELSE CatalogMarketPages, MaxPages) :
           upstream = [pages |-> ps, total |-> 0]
    /\ nfetch = 0 /\ cursor = "" /\ product_list = <<>> /\ fetch_log = <<>>
    /\ pending = <<>> /\ calls = <<>> /\ bsize = [stocks |-> 0, prices |-> 0]
    /\ not_empty = <<>> /\ err = "none"
    /\ NoReconcile /\ NoDivide

NextTermination == CatalogFetch

\* the loop is sequential code and every fetch returns, so a turn that can be
\* made is made
SpecTermination == InitTermination /\ [][NextTermination]_vars /\ WF_vars(CatalogFetch)

\* C15: against a finite catalog, every fetch succeeding, get_offer_ids of
\* either script eventually returns.
C15_Terminates == <>(pc = "listed")

\* the Yandex half alone: the loop returns at the first page without a token,
\* which a finite catalog gives at the latest once its pages are used up
MarketListingTerminates == (prog = "market.get_offer_ids") => <>(pc = "listed")

=============================================================================
